---- MODULE Spec2Model ----
(***************************************************************************)
(* Model of the multi-account trading bot: src/trade_executor.py           *)
(* (BybitTradeExecutor), src/app.py (the Flask handlers) and src/config.py *)
(* (ACCOUNT_CONFIGS).                                                      *)
(*                                                                         *)
(* Processes:                                                              *)
(*   - Flask worker threads (Workers) serving /webhook, /account/../status *)
(*     one request at a time each; a request is a sequence of steps, one   *)
(*     per read/write of executor state or blocking exchange call;         *)
(*   - the control endpoint (pause / resume / toggle_monitor), one atomic  *)
(*     field write each;                                                   *)
(*   - the monitor threads started by start_profit_monitor.                *)
(* The exchange (ccxt) is external: every call either raises or returns a  *)
(* value drawn from a small set.                                           *)
(*                                                                         *)
(* Specifications over the same variables:                                 *)
(*   Spec         the request side (webhook fan-out, place_order, the      *)
(*                balance check and its circuit breaker, status, pause and *)
(*                resume);                                                 *)
(*   MonSpec      the monitor side (monitor loops, toggle_monitor);        *)
(*   FairMonSpec  MonSpec with every monitor thread scheduled fairly;      *)
(*   FullSpec     both sides interleaved;                                  *)
(*   ConcSpec     two webhook requests in flight at once beside a monitor  *)
(*                thread;                                                  *)
(*   IterSpec     the monitor iterations taken position by position;       *)
(*   RaceSpec     a webhook request beside a monitor thread, with the      *)
(*                account's position kept as the exchange holds it.        *)
(* The two sides write disjoint executor fields (trading_enabled,          *)
(* trade_history, failed_trades versus monitoring_active, profit_locks,    *)
(* total_profit_locks), so each is explored on its own.                    *)
(***************************************************************************)
EXTENDS Integers, Sequences, FiniteSets, TLC

VARIABLES
    trading_enabled,     \* [account -> BOOLEAN]        self.trading_enabled
    monitoring_active,   \* [account -> BOOLEAN]        self.monitoring_active
    trade_history,       \* [account -> Seq(trade)]     self.trade_history
    failed_trades,       \* [account -> Seq(trade)]     self.failed_trades
    profit_locks,        \* [account -> [symbols -> Seq(event)]]  self.profit_locks
    total_profit_locks,  \* [account -> Nat]            self.total_profit_locks
    monitor_thread,      \* [account -> [LoopIds -> loop state]]  threads running monitor_positions_profit
    worker,              \* [Workers -> request state]  Flask request threads
    signals,             \* number of webhook signals received so far (bounds the exploration)
    polls_while_cleared, \* [account -> Nat] monitor polls made with monitoring_active false since it was last cleared
    placements,          \* [account -> Nat] create_order calls of place_order the exchange accepted
    lock_triggers,       \* [account -> Nat] times the monitor found a position at or above the profit threshold
    exchange_positions   \* [account -> position] the account's position on the signal symbol as the exchange holds it

vars == <<trading_enabled, monitoring_active, trade_history, failed_trades,
          profit_locks, total_profit_locks, monitor_thread, worker, signals,
          polls_while_cleared, placements, lock_triggers,
          exchange_positions>>

----------------------------------------------------------------------------
(* Bounds of the exploration *)

MaxSignals == 2        \* webhook signals received in one behaviour
MaxLoops == 2          \* monitor thread slots per account
MaxLocks == 2          \* profit locks recorded per account

----------------------------------------------------------------------------
(* Configuration: src/config.py ACCOUNT_CONFIGS *)

Accounts == {"account1", "account2"}

\* dict order of ACCOUNT_CONFIGS / trade_executors
AccountOrder == <<"account1", "account2">>

balance_threshold == [a \in Accounts |-> IF a = "account1" THEN 100 ELSE 200]
leverage == [a \in Accounts |-> IF a = "account1" THEN 5 ELSE 10]
\* risk_percentage, in percent
risk_percentage == [a \in Accounts |-> IF a = "account1" THEN 1 ELSE 2]
\* the fractions 0.1 / 0.15, 0.3 / 0.4, 0.05 / 0.08 in hundredths
profit_lock_threshold == [a \in Accounts |-> IF a = "account1" THEN 10 ELSE 15]
initial_tp_percentage == [a \in Accounts |-> IF a = "account1" THEN 30 ELSE 40]
initial_sl_percentage == [a \in Accounts |-> IF a = "account1" THEN 5 ELSE 8]
config_monitoring_active == [a \in Accounts |-> TRUE]

----------------------------------------------------------------------------
(* The exchange: values its calls return.  Amounts of contracts are in     *)
(* units of 0.00001 (the dust threshold of the code), prices in quote      *)
(* currency, order sizes in thousandths (the amount precision of the       *)
(* market), bracket prices in hundredths.                                  *)

Symbols == <<"BTCUSDT", "ETHUSDT">>

\* the side field of a position as the code compares it ('buy' / 'sell')
PositionSides == {"buy", "sell"}

\* position['contracts']: none, exactly the dust threshold 0.00001, 10 contracts
ContractValues == {0, 1, 1000000}

\* position['unrealizedPnl'] (entryPrice 100, markPrice 103)
PnlValues == {10, 20}

PositionValues(s) ==
    [symbol : {s}, side : PositionSides, contracts : ContractValues,
     unrealizedPnl : PnlValues, entryPrice : {100}, markPrice : {103}]

\* fetch_positions(): at most one position per symbol, in symbol order
PositionLists ==
    {<<>>}
    \cup {<<p>> : p \in PositionValues(Symbols[1]) \cup PositionValues(Symbols[2])}
    \cup {<<p, q>> : p \in PositionValues(Symbols[1]), q \in PositionValues(Symbols[2])}

\* fetch_positions([symbol])
SymbolPositionLists(s) == {<<>>} \cup {<<p>> : p \in PositionValues(s)}

\* fetch_balance()['USDT']['total']
EquityValues == {50, 150, 250}

\* fetch_ticker(symbol)['last']
TickerValues == {100, 250}

\* the webhook payload: data['symbol'], data['side']
SignalSymbols == {"BTCUSDT"}
SignalSides == {"BUY", "sell"}

\* str.lower() on the side strings in use
Lower(s) ==
    CASE s = "BUY" -> "buy"
      [] s = "Buy" -> "buy"
      [] s = "SELL" -> "sell"
      [] s = "Sell" -> "sell"
      [] OTHER -> s

\* abs(float(x))
Abs(x) == IF x < 0 THEN -x ELSE x

----------------------------------------------------------------------------
(* Pure parts of BybitTradeExecutor *)

\* is_opposite_side without .lower()
is_opposite_side_exact(existing_position, new_side) ==
    \/ existing_position.side = "buy" /\ new_side = "sell"
    \/ existing_position.side = "sell" /\ new_side = "buy"

\* is_opposite_side
is_opposite_side(existing_position, new_side) ==
    \/ existing_position.side = "buy" /\ Lower(new_side) = "sell"
    \/ existing_position.side = "sell" /\ Lower(new_side) = "buy"

\* check_existing_position: the first position above the dust threshold, or None (<<>>)
RECURSIVE FirstOpen(_)
FirstOpen(positions) ==
    IF positions = <<>> THEN <<>>
    ELSE IF Abs(Head(positions).contracts) > 1 THEN <<Head(positions)>>
    ELSE FirstOpen(Tail(positions))

\* place_order line 126
PositionMultiplier(positions, side) ==
    IF FirstOpen(positions) # <<>> /\ is_opposite_side(FirstOpen(positions)[1], side)
    THEN 2 ELSE 1

\* calculate_position_size: risk_amount / current_price * multiply_factor,
\* truncated to the amount precision (thousandths)
PositionSize(a, balance, current_price, multiply_factor) ==
    (balance * risk_percentage[a] * leverage[a] * multiply_factor * 1000)
        \div (100 * current_price)

\* place_order lines 135-136 without .lower()
TpPriceExact(a, side, entry_price) ==
    IF side = "buy" THEN entry_price * (100 + initial_tp_percentage[a])
    ELSE entry_price * (100 - initial_tp_percentage[a])

\* place_order lines 135-138, in hundredths
TpPrice(a, side, entry_price) ==
    IF Lower(side) = "buy" THEN entry_price * (100 + initial_tp_percentage[a])
    ELSE entry_price * (100 - initial_tp_percentage[a])

SlPrice(a, side, entry_price) ==
    IF Lower(side) = "buy" THEN entry_price * (100 - initial_sl_percentage[a])
    ELSE entry_price * (100 + initial_sl_percentage[a])

\* the order place_order submits (lines 141-153)
EntryOrder(a, symbol, side, position_size, entry_price) ==
    [symbol |-> symbol, type |-> "market", side |-> Lower(side),
     amount |-> position_size,
     takeProfit |-> TpPrice(a, side, entry_price),
     stopLoss |-> SlPrice(a, side, entry_price),
     reduceOnly |-> FALSE]

\* the dict handed to _log_trade: of its fields the history keeps symbol and
\* side here (timestamp, size, prices and the exchange's order are functions
\* of the request's locals and of the clock)
TradeData(symbol, side) == [symbol |-> symbol, side |-> side]

\* _log_trade without the append
LogTradeLost(history, trade_data) == history

\* _log_trade
LogTrade(history, trade_data) == Append(history, trade_data)

\* the fields of a position close_all_positions reads
CloseView(position) ==
    [symbol |-> position.symbol, side |-> position.side,
     contracts |-> position.contracts]

\* fetch_positions() as close_all_positions sees it
ClosePositionLists ==
    {[k \in 1..Len(positions) |-> CloseView(positions[k])] :
         positions \in PositionLists}

\* close_all_positions line 65 with the side not inverted
CloseOrderSameSide(position) ==
    [symbol |-> position.symbol, type |-> "market",
     side |-> position.side,
     amount |-> Abs(position.contracts), reduce_only |-> TRUE]

\* the order close_all_positions submits for one position
CloseOrder(position) ==
    [symbol |-> position.symbol, type |-> "market",
     side |-> IF position.side = "buy" THEN "sell" ELSE "buy",
     amount |-> Abs(position.contracts), reduce_only |-> TRUE]

\* close_all_positions' loop: the orders submitted for `positions` when the
\* fail_at-th create_market_order raises (0: none raises); sent counts the
\* submissions attempted so far
RECURSIVE CloseLoop(_, _, _)
CloseLoop(positions, fail_at, sent) ==
    IF positions = <<>> THEN <<>>
    ELSE IF Abs(Head(positions).contracts) > 0
         THEN IF sent + 1 = fail_at THEN <<>>
              ELSE <<CloseOrder(Head(positions))>>
                       \o CloseLoop(Tail(positions), fail_at, sent + 1)
         ELSE CloseLoop(Tail(positions), fail_at, sent)

\* number of create_market_order calls the loop makes (the raising one included)
RECURSIVE CloseCalls(_, _, _)
CloseCalls(positions, fail_at, sent) ==
    IF positions = <<>> THEN 0
    ELSE IF Abs(Head(positions).contracts) > 0
         THEN IF sent + 1 = fail_at THEN 1
              ELSE 1 + CloseCalls(Tail(positions), fail_at, sent + 1)
         ELSE CloseCalls(Tail(positions), fail_at, sent)

----------------------------------------------------------------------------
(* Flask request threads.  A worker's record holds the locals of the       *)
(* request it serves and, for the properties, what the current place_order *)
(* / get_wallet_balance invocation has done so far:                        *)
(*   gate     "open"/"closed": trading_enabled was true/false when         *)
(*            place_order tested it                                        *)
(*   calls    exchange calls made                                          *)
(*   entries  entry orders submitted (create_order)                        *)
(*   logged / failed_logged  entries appended to trade_history /           *)
(*            failed_trades                                                *)
(*   snap, flat  close_all_positions, until get_wallet_balance returns:    *)
(*            the positions fetched and the orders submitted               *)
(*   flat_raised  an exchange call of close_all_positions raised           *)
(*   failed_at  the exchange call whose exception ended the invocation     *)
(*   order    the entry order create_order accepted                        *)
(*   leverage_outcome  what exchange.set_leverage answered, until          *)
(*            fetch_balance is called                                      *)
(*   probe    what fetch_positions([symbol]) answered to                   *)
(*            check_existing_position, until set_leverage is called        *)

\* one request is in progress at a time; what a concurrent request can do to
\* the fields a request reads in between its steps (trading_enabled) is done
\* by Pause and Resume
Workers == {"w1"}

Idle ==
    [pc |-> "idle", kind |-> "none", symbol |-> "", side |-> "", acct |-> 0,
     position_multiplier |-> 0, balance |-> 0, current_price |-> 0,
     position_size |-> 0, gate |-> "none", calls |-> 0, entries |-> 0,
     logged |-> 0, failed_logged |-> 0, result |-> "none",
     snap |-> <<>>, flat |-> <<>>, flat_raised |-> FALSE, responses |-> <<>>,
     failed_at |-> "none", probe |-> <<>>, order |-> <<>>,
     leverage_outcome |-> "none"]

\* the executor the worker is working on
Acct(w) == AccountOrder[worker[w].acct]

AccountIndex(a) == CHOOSE i \in 1..Len(AccountOrder) : AccountOrder[i] = a

RequestSide == <<trading_enabled, trade_history, failed_trades, worker, signals,
                 placements>>
MonitorSide == <<monitoring_active, profit_locks, total_profit_locks,
                 monitor_thread, polls_while_cleared, lock_triggers>>
\* the account's position book at the exchange, which both paths address
ExchangeSide == <<exchange_positions>>

\* the webhook loop without its inner try/except and `continue`: an error
\* for one executor ends the loop
NextAccountStopOnError(rec, response) ==
    IF rec.acct < Len(AccountOrder) /\ response # "error"
    THEN [Idle EXCEPT !.pc = "wh_gate", !.kind = "webhook", !.symbol = rec.symbol,
                      !.side = rec.side, !.acct = rec.acct + 1,
                      !.responses = Append(rec.responses, response)]
    ELSE [Idle EXCEPT !.pc = "wh_return", !.kind = "webhook",
                      !.responses = Append(rec.responses, response)]

\* the webhook loop moves on to the next executor, or returns the responses
NextAccount(rec, response) ==
    IF rec.acct < Len(AccountOrder)
    THEN [Idle EXCEPT !.pc = "wh_gate", !.kind = "webhook", !.symbol = rec.symbol,
                      !.side = rec.side, !.acct = rec.acct + 1,
                      !.responses = Append(rec.responses, response)]
    ELSE [Idle EXCEPT !.pc = "wh_return", !.kind = "webhook",
                      !.responses = Append(rec.responses, response)]

\* place_order without its try/except: the exception leaves place_order
PlaceOrderUncaught(rec) == [rec EXCEPT !.pc = "po_raised", !.result = "exception"]

\* an exception in place_order's try block: lines 168-170
PlaceOrderExcept(rec) == [rec EXCEPT !.pc = "po_return", !.result = "error"]

\* an exception leaving get_wallet_balance (re-raised at line 54): caught by
\* place_order (through calculate_position_size, line 103) or by get_account_status
BalanceRaised(rec) ==
    IF rec.kind = "webhook" THEN PlaceOrderExcept(rec)
    ELSE [rec EXCEPT !.pc = "st_return", !.result = "error"]

\* get_wallet_balance returns total_balance (line 51)
BalanceReturned(rec) ==
    IF rec.kind = "webhook" THEN [rec EXCEPT !.pc = "po_ticker"]
    ELSE [rec EXCEPT !.pc = "st_return", !.result = "success"]

\* webhook(): a signal with the required fields arrives
Webhook(w, symbol, side) ==
    /\ worker[w].pc = "idle"
    /\ signals < MaxSignals
    /\ signals' = signals + 1
    /\ worker' = [worker EXCEPT ![w] =
           [Idle EXCEPT !.pc = "wh_gate", !.kind = "webhook", !.symbol = symbol,
                        !.side = side, !.acct = 1]]
    /\ UNCHANGED <<trading_enabled, trade_history, failed_trades, placements>>
    /\ UNCHANGED <<MonitorSide, ExchangeSide>>

\* webhook() lines 98-103: the dispatcher's own check of trading_enabled
WebhookGate(w) ==
    /\ worker[w].pc = "wh_gate"
    /\ worker' = [worker EXCEPT ![w] =
           IF ~trading_enabled[Acct(w)] THEN NextAccount(@, "error")
           ELSE [@ EXCEPT !.pc = "po_gate"]]
    /\ UNCHANGED <<trading_enabled, trade_history, failed_trades, signals,
                   placements>>
    /\ UNCHANGED <<MonitorSide, ExchangeSide>>

\* what the gate field records of the flag
GateSeen(enabled) == IF enabled THEN "open" ELSE "closed"

\* place_order without lines 121-122
PlaceOrderGateUnchecked(w) ==
    /\ worker[w].pc = "po_gate"
    /\ worker' = [worker EXCEPT ![w] =
           [@ EXCEPT !.pc = "po_probe", !.gate = GateSeen(trading_enabled[Acct(w)])]]
    /\ UNCHANGED <<trading_enabled, trade_history, failed_trades, signals,
                   placements>>
    /\ UNCHANGED <<MonitorSide, ExchangeSide>>

\* place_order lines 121-122
PlaceOrderGate(w) ==
    /\ worker[w].pc = "po_gate"
    /\ worker' = [worker EXCEPT ![w] =
           IF ~trading_enabled[Acct(w)]
           THEN [@ EXCEPT !.pc = "po_return", !.result = "error",
                          !.gate = GateSeen(trading_enabled[Acct(w)])]
           ELSE [@ EXCEPT !.pc = "po_probe",
                          !.gate = GateSeen(trading_enabled[Acct(w)])]]
    /\ UNCHANGED <<trading_enabled, trade_history, failed_trades, signals,
                   placements>>
    /\ UNCHANGED <<MonitorSide, ExchangeSide>>

\* place_order lines 125-126, check_existing_position
CheckExistingPosition(w) ==
    /\ worker[w].pc = "po_probe"
    /\ \/ worker' = [worker EXCEPT ![w] =
              PlaceOrderExcept([@ EXCEPT !.calls = @ + 1, !.failed_at = "probe"])]
       \/ \E positions \in SymbolPositionLists(worker[w].symbol) :
              worker' = [worker EXCEPT ![w] =
                  [@ EXCEPT !.pc = "po_leverage", !.calls = @ + 1,
                            !.probe = positions,
                            !.position_multiplier =
                                PositionMultiplier(positions, worker[w].side)]]
    /\ UNCHANGED <<trading_enabled, trade_history, failed_trades, signals,
                   placements>>
    /\ UNCHANGED <<MonitorSide, ExchangeSide>>

\* exchange.set_leverage: it returns, or raises the 'leverage not modified'
\* error or another error
LeverageOutcomes == {"ok", "leverage not modified", "error"}

\* set_leverage swallowing the 'leverage not modified' error alone: any
\* other exception goes on to place_order's except
SetLeverageRaising(w) ==
    /\ worker[w].pc = "po_leverage"
    /\ \E outcome \in LeverageOutcomes :
           worker' = [worker EXCEPT ![w] =
               IF outcome = "error"
               THEN PlaceOrderExcept([@ EXCEPT !.calls = @ + 1, !.probe = <<>>,
                                               !.failed_at = "leverage"])
               ELSE [@ EXCEPT !.pc = "bal_fetch", !.calls = @ + 1,
                              !.probe = <<>>, !.leverage_outcome = outcome]]
    /\ UNCHANGED <<trading_enabled, trade_history, failed_trades, signals,
                   placements>>
    /\ UNCHANGED <<MonitorSide, ExchangeSide>>

\* place_order line 129, set_leverage: whatever the exchange answers, the
\* exception is swallowed and place_order goes on
SetLeverage(w) ==
    /\ worker[w].pc = "po_leverage"
    /\ \E outcome \in LeverageOutcomes :
           worker' = [worker EXCEPT ![w] =
               [@ EXCEPT !.pc = "bal_fetch", !.calls = @ + 1, !.probe = <<>>,
                         !.leverage_outcome = outcome]]
    /\ UNCHANGED <<trading_enabled, trade_history, failed_trades, signals,
                   placements>>
    /\ UNCHANGED <<MonitorSide, ExchangeSide>>

\* get_wallet_balance with an else branch that switches trading back on
\* when the balance is at or above the threshold
GetWalletBalanceReenabling(w) ==
    /\ worker[w].pc = "bal_fetch"
    /\ \/ /\ worker' = [worker EXCEPT ![w] =
                 BalanceRaised([@ EXCEPT !.calls = @ + 1, !.failed_at = "balance",
                                         !.leverage_outcome = "none"])]
          /\ UNCHANGED trading_enabled
       \/ \E total_balance \in EquityValues :
              IF total_balance < balance_threshold[Acct(w)]
              THEN /\ worker' = [worker EXCEPT ![w] =
                          [@ EXCEPT !.pc = "bal_close", !.calls = @ + 1,
                                    !.balance = total_balance,
                                    !.leverage_outcome = "none"]]
                   /\ UNCHANGED trading_enabled
              ELSE /\ worker' = [worker EXCEPT ![w] =
                          BalanceReturned([@ EXCEPT !.calls = @ + 1,
                                                    !.balance = total_balance,
                                                    !.leverage_outcome = "none"])]
                   /\ trading_enabled' = [trading_enabled EXCEPT ![Acct(w)] = TRUE]
    /\ UNCHANGED <<trade_history, failed_trades, signals, placements>>
    /\ UNCHANGED <<MonitorSide, ExchangeSide>>

\* get_wallet_balance lines 41-46: fetch_balance and the threshold test
GetWalletBalance(w) ==
    /\ worker[w].pc = "bal_fetch"
    /\ \/ worker' = [worker EXCEPT ![w] =
              BalanceRaised([@ EXCEPT !.calls = @ + 1, !.failed_at = "balance",
                                      !.leverage_outcome = "none"])]
       \/ \E total_balance \in EquityValues :
              worker' = [worker EXCEPT ![w] =
                  IF total_balance < balance_threshold[Acct(w)]
                  THEN [@ EXCEPT !.pc = "bal_close", !.calls = @ + 1,
                                 !.balance = total_balance,
                                 !.leverage_outcome = "none"]
                  ELSE BalanceReturned([@ EXCEPT !.calls = @ + 1,
                                                 !.balance = total_balance,
                                                 !.leverage_outcome = "none"])]
    /\ UNCHANGED <<trading_enabled, trade_history, failed_trades, signals,
                   placements>>
    /\ UNCHANGED <<MonitorSide, ExchangeSide>>

\* close_all_positions without its try/except: an exception of the exchange
\* leaves get_wallet_balance before line 49
CloseAllPositionsUncaught(w) ==
    /\ worker[w].pc = "bal_close"
    /\ \/ worker' = [worker EXCEPT ![w] =
              BalanceRaised([@ EXCEPT !.calls = @ + 1, !.flat_raised = TRUE,
                                       !.failed_at = "balance"])]
       \/ \E positions \in ClosePositionLists, fail_at \in 0..Len(Symbols) :
              worker' = [worker EXCEPT ![w] =
                  IF CloseCalls(positions, fail_at, 0)
                         > Len(CloseLoop(positions, fail_at, 0))
                  THEN BalanceRaised([@ EXCEPT !.calls = @ + 1, !.flat_raised = TRUE,
                                       !.failed_at = "balance"])
                  ELSE [@ EXCEPT !.pc = "bal_disable",
                                 !.calls = @ + 1 + CloseCalls(positions, fail_at, 0),
                                 !.snap = positions,
                                 !.flat = CloseLoop(positions, fail_at, 0)]]
    /\ UNCHANGED <<trading_enabled, trade_history, failed_trades, signals,
                   placements>>
    /\ UNCHANGED <<MonitorSide, ExchangeSide>>

\* close_all_positions (called at line 48): fetch_positions raises, or the
\* loop runs over the positions and its fail_at-th order raises (0: none);
\* every exception is caught at line 70
CloseAllPositions(w) ==
    /\ worker[w].pc = "bal_close"
    /\ \/ worker' = [worker EXCEPT ![w] =
              [@ EXCEPT !.pc = "bal_disable", !.calls = @ + 1,
                        !.flat_raised = TRUE]]
       \/ \E positions \in ClosePositionLists, fail_at \in 0..Len(Symbols) :
              worker' = [worker EXCEPT ![w] =
                  [@ EXCEPT !.pc = "bal_disable",
                            !.calls = @ + 1 + CloseCalls(positions, fail_at, 0),
                            !.snap = positions,
                            !.flat = CloseLoop(positions, fail_at, 0),
                            !.flat_raised =
                                CloseCalls(positions, fail_at, 0)
                                    > Len(CloseLoop(positions, fail_at, 0))]]
    /\ UNCHANGED <<trading_enabled, trade_history, failed_trades, signals,
                   placements>>
    /\ UNCHANGED <<MonitorSide, ExchangeSide>>

\* get_wallet_balance lines 49-51
DisableTrading(w) ==
    /\ worker[w].pc = "bal_disable"
    /\ trading_enabled' = [trading_enabled EXCEPT ![Acct(w)] = FALSE]
    /\ worker' = [worker EXCEPT ![w] =
           BalanceReturned([@ EXCEPT !.snap = <<>>, !.flat = <<>>])]
    /\ UNCHANGED <<trade_history, failed_trades, signals, placements>>
    /\ UNCHANGED <<MonitorSide, ExchangeSide>>

\* calculate_position_size lines 86-87
FetchTicker(w) ==
    /\ worker[w].pc = "po_ticker"
    /\ \/ worker' = [worker EXCEPT ![w] =
              PlaceOrderExcept([@ EXCEPT !.calls = @ + 1, !.failed_at = "ticker"])]
       \/ \E last \in TickerValues :
              worker' = [worker EXCEPT ![w] =
                  [@ EXCEPT !.pc = "po_market", !.calls = @ + 1,
                            !.current_price = last]]
    /\ UNCHANGED <<trading_enabled, trade_history, failed_trades, signals,
                   placements>>
    /\ UNCHANGED <<MonitorSide, ExchangeSide>>

\* calculate_position_size falling back to the size computed so far when the
\* market lookup or the rounding raises
MarketPrecisionFallback(w) ==
    /\ worker[w].pc = "po_market"
    /\ \/ worker' = [worker EXCEPT ![w] =
              [@ EXCEPT !.pc = "po_order", !.calls = @ + 1,
                        !.failed_at = "market",
                        !.position_size =
                            PositionSize(Acct(w), worker[w].balance,
                                         worker[w].current_price,
                                         worker[w].position_multiplier)]]
       \/ worker' = [worker EXCEPT ![w] =
              [@ EXCEPT !.pc = "po_order", !.calls = @ + 1,
                        !.position_size =
                            PositionSize(Acct(w), worker[w].balance,
                                         worker[w].current_price,
                                         worker[w].position_multiplier)]]
    /\ UNCHANGED <<trading_enabled, trade_history, failed_trades, signals,
                   placements>>
    /\ UNCHANGED <<MonitorSide, ExchangeSide>>

\* calculate_position_size lines 90-100: market precision and rounding
MarketPrecision(w) ==
    /\ worker[w].pc = "po_market"
    /\ \/ worker' = [worker EXCEPT ![w] =
              PlaceOrderExcept([@ EXCEPT !.calls = @ + 1, !.failed_at = "market"])]
       \/ worker' = [worker EXCEPT ![w] =
              [@ EXCEPT !.pc = "po_order", !.calls = @ + 1,
                        !.position_size =
                            PositionSize(Acct(w), worker[w].balance,
                                         worker[w].current_price,
                                         worker[w].position_multiplier)]]
    /\ UNCHANGED <<trading_enabled, trade_history, failed_trades, signals,
                   placements>>
    /\ UNCHANGED <<MonitorSide, ExchangeSide>>

\* place_order lines 141-166: create_order raises, or succeeds and the trade
\* is logged
CreateOrder(w) ==
    /\ worker[w].pc = "po_order"
    /\ \/ /\ worker' = [worker EXCEPT ![w] =
                 PlaceOrderExcept([@ EXCEPT !.calls = @ + 1, !.failed_at = "order"])]
          /\ UNCHANGED <<trade_history, placements>>
       \/ /\ trade_history' = [trade_history EXCEPT ![Acct(w)] =
                 LogTrade(@, TradeData(worker[w].symbol, worker[w].side))]
          /\ placements' = [placements EXCEPT ![Acct(w)] = @ + 1]
          /\ worker' = [worker EXCEPT ![w] =
                 [@ EXCEPT !.pc = "po_return", !.calls = @ + 1,
                           !.entries = @ + 1,
                           !.order = EntryOrder(Acct(w), worker[w].symbol,
                                                worker[w].side,
                                                worker[w].position_size,
                                                worker[w].current_price),
                           !.logged = @ + Len(trade_history'[Acct(w)])
                                        - Len(trade_history[Acct(w)]),
                           !.result = "success"]]
    /\ UNCHANGED <<trading_enabled, failed_trades, signals>>
    /\ UNCHANGED <<MonitorSide, ExchangeSide>>

\* webhook() line 113: the response of this executor is stored
PlaceOrderReturn(w) ==
    /\ worker[w].pc = "po_return"
    /\ worker' = [worker EXCEPT ![w] = NextAccount(@, @.result)]
    /\ UNCHANGED <<trading_enabled, trade_history, failed_trades, signals,
                   placements>>
    /\ UNCHANGED <<MonitorSide, ExchangeSide>>

\* webhook() lines 122-125
WebhookReturn(w) ==
    /\ worker[w].pc = "wh_return"
    /\ worker' = [worker EXCEPT ![w] = Idle]
    /\ UNCHANGED <<trading_enabled, trade_history, failed_trades, signals,
                   placements>>
    /\ UNCHANGED <<MonitorSide, ExchangeSide>>

\* get_account_status: reads the fields, then calls get_wallet_balance
GetAccountStatus(w, a) ==
    /\ worker[w].pc = "idle"
    /\ worker' = [worker EXCEPT ![w] =
           [Idle EXCEPT !.pc = "bal_fetch", !.kind = "status",
                        !.acct = AccountIndex(a)]]
    /\ UNCHANGED <<trading_enabled, trade_history, failed_trades, signals,
                   placements>>
    /\ UNCHANGED <<MonitorSide, ExchangeSide>>

\* get_account_status: the 200 or 500 response
StatusReturn(w) ==
    /\ worker[w].pc = "st_return"
    /\ worker' = [worker EXCEPT ![w] = Idle]
    /\ UNCHANGED <<trading_enabled, trade_history, failed_trades, signals,
                   placements>>
    /\ UNCHANGED <<MonitorSide, ExchangeSide>>

\* control_account, action 'pause'
Pause(a) ==
    /\ trading_enabled' = [trading_enabled EXCEPT ![a] = FALSE]
    /\ UNCHANGED <<trade_history, failed_trades, worker, signals, placements>>
    /\ UNCHANGED <<MonitorSide, ExchangeSide>>

\* control_account, action 'resume'
Resume(a) ==
    /\ trading_enabled' = [trading_enabled EXCEPT ![a] = TRUE]
    /\ UNCHANGED <<trade_history, failed_trades, worker, signals, placements>>
    /\ UNCHANGED <<MonitorSide, ExchangeSide>>

----------------------------------------------------------------------------
(* Monitor threads.  A loop's record holds its position in                 *)
(* monitor_positions_profit and its locals:                                *)
(*   pc "none"    slot not in use (no thread started)                      *)
(*      "top"     about to evaluate `while self.monitoring_active`         *)
(*      "poll"    inside an iteration, about to call fetch_positions       *)
(*      "proc"    in the for loop, at a position that passed both tests    *)
(*      "incr"    inside `self.total_profit_locks += 1`, value read        *)
(*      "sleep"   in time.sleep(5) of line 205                             *)
(*      "sleep_err" in time.sleep(5) of line 209 (the except branch)       *)
(*      "exited"  the while condition was false: the thread has ended      *)
(*      "each"    in the for loop, at a position not yet tested (the loop  *)
(*                taken position by position, MonitorForEach)              *)
(*   positions   the positions of this poll still to handle (those at or   *)
(*               below the dust threshold or below the profit threshold    *)
(*               are passed over without effect and are left out)          *)
(*   stop_calls  update_stop_loss calls made since the last poll (counted  *)
(*               where the loop is taken position by position)             *)

LoopIds == 1..MaxLoops

NoLoop == [pc |-> "none", positions |-> <<>>, read_total |-> 0, stop_calls |-> 0]

Running(loop) == loop.pc \notin {"none", "exited"}

\* monitor_positions_profit line 199; contracts are in units of 0.00001
ProfitPercentage(a, position) ==
    (position.unrealizedPnl * 100 * leverage[a] * 100000)
        \div (position.entryPrice * Abs(position.contracts))

\* line 201 with > in place of >=
LocksProfitStrict(a, position) ==
    /\ Abs(position.contracts) > 1
    /\ ProfitPercentage(a, position) > profit_lock_threshold[a]

\* lines 189 and 201: the position is handled in this iteration
LocksProfit(a, position) ==
    /\ Abs(position.contracts) > 1
    /\ ProfitPercentage(a, position) >= profit_lock_threshold[a]

RECURSIVE Locking(_, _)
Locking(a, positions) ==
    IF positions = <<>> THEN <<>>
    ELSE IF LocksProfit(a, Head(positions))
         THEN <<Head(positions)>> \o Locking(a, Tail(positions))
         ELSE Locking(a, Tail(positions))

\* what the for loop has to handle of a poll, for every list of positions
\* fetch_positions can return
LockingLists ==
    [a \in Accounts |-> {Locking(a, positions) : positions \in PositionLists}]

\* update_stop_loss: the order submitted (prices in thousandths)
StopOrder(position) ==
    [symbol |-> position.symbol, type |-> "stop",
     side |-> IF position.side = "buy" THEN "sell" ELSE "buy",
     amount |-> Abs(position.contracts),
     triggerPrice |-> IF position.side = "buy" THEN position.markPrice * 990
                      ELSE position.markPrice * 1001,
     reduceOnly |-> TRUE]

\* _record_profit_lock lines 240-246
RecordProfitLock(locks, symbol, profit_percentage) ==
    IF symbol \in DOMAIN locks
    THEN [locks EXCEPT ![symbol] = Append(@, [profit_percentage |-> profit_percentage])]
    ELSE [s \in DOMAIN locks \cup {symbol} |->
              IF s = symbol THEN <<[profit_percentage |-> profit_percentage]>>
              ELSE locks[s]]

\* start_profit_monitor starting two threads that run
\* monitor_positions_profit
StartProfitMonitorTwice(loops) ==
    [i \in LoopIds |-> IF i <= 2 THEN [NoLoop EXCEPT !.pc = "top"] ELSE loops[i]]

\* start_profit_monitor: a new thread, in the first free slot
StartProfitMonitor(loops) ==
    IF \E i \in LoopIds : loops[i].pc = "none"
    THEN [loops EXCEPT ![CHOOSE i \in LoopIds :
                             /\ loops[i].pc = "none"
                             /\ \A j \in LoopIds : loops[j].pc = "none" => i <= j]
                          = [NoLoop EXCEPT !.pc = "top"]]
    ELSE loops

\* monitor_positions_profit with `while True`
MonitorTopUnchecked(a, i) ==
    /\ monitor_thread[a][i].pc = "top"
    /\ monitor_thread' = [monitor_thread EXCEPT ![a][i].pc = "poll"]
    /\ UNCHANGED <<monitoring_active, profit_locks, total_profit_locks,
                   polls_while_cleared, lock_triggers>>
    /\ UNCHANGED <<RequestSide, ExchangeSide>>

\* monitor_positions_profit line 184
MonitorTop(a, i) ==
    /\ monitor_thread[a][i].pc = "top"
    /\ monitor_thread' = [monitor_thread EXCEPT ![a][i].pc =
           IF monitoring_active[a] THEN "poll" ELSE "exited"]
    /\ UNCHANGED <<monitoring_active, profit_locks, total_profit_locks,
                   polls_while_cleared, lock_triggers>>
    /\ UNCHANGED <<RequestSide, ExchangeSide>>

\* monitor_positions_profit without the try/except of lines 185 and 207-209:
\* a raise of fetch_positions ends the thread
MonitorPollUncaught(a, i) ==
    /\ monitor_thread[a][i].pc = "poll"
    /\ polls_while_cleared' = [polls_while_cleared EXCEPT ![a] =
           IF ~monitoring_active[a] /\ @ < 3 THEN @ + 1 ELSE @]
    /\ \/ monitor_thread' = [monitor_thread EXCEPT ![a][i].pc = "exited"]
       \/ \E locking \in LockingLists[a] :
              /\ total_profit_locks[a] + Len(locking) <= MaxLocks
              /\ monitor_thread' = [monitor_thread EXCEPT ![a][i] =
                     IF locking = <<>>
                     THEN [@ EXCEPT !.pc = "sleep"]
                     ELSE [@ EXCEPT !.pc = "proc", !.positions = locking]]
    /\ UNCHANGED <<monitoring_active, profit_locks, total_profit_locks,
                   lock_triggers>>
    /\ UNCHANGED <<RequestSide, ExchangeSide>>

\* line 186: fetch_positions raises (handled at 207-209) or returns a list
\* of positions, of which `locking` are those the for loop handles
MonitorPoll(a, i) ==
    /\ monitor_thread[a][i].pc = "poll"
    /\ polls_while_cleared' = [polls_while_cleared EXCEPT ![a] =
           IF ~monitoring_active[a] /\ @ < 3 THEN @ + 1 ELSE @]
    /\ \/ monitor_thread' = [monitor_thread EXCEPT ![a][i].pc = "sleep_err"]
       \/ \E locking \in LockingLists[a] :
              /\ total_profit_locks[a] + Len(locking) <= MaxLocks
              /\ monitor_thread' = [monitor_thread EXCEPT ![a][i] =
                     IF locking = <<>>
                     THEN [@ EXCEPT !.pc = "sleep"]
                     ELSE [@ EXCEPT !.pc = "proc", !.positions = locking]]
    /\ UNCHANGED <<monitoring_active, profit_locks, total_profit_locks,
                   lock_triggers>>
    /\ UNCHANGED <<RequestSide, ExchangeSide>>

\* lines 202-203 up to the read of total_profit_locks: update_stop_loss
\* submits StopOrder or raises (swallowed at 235), then the event is appended
MonitorLock(a, i) ==
    /\ monitor_thread[a][i].pc = "proc"
    /\ \E stop_submitted \in BOOLEAN :
           LET position == Head(monitor_thread[a][i].positions) IN
           /\ profit_locks' = [profit_locks EXCEPT ![a] =
                  RecordProfitLock(@, position.symbol, ProfitPercentage(a, position))]
           /\ monitor_thread' = [monitor_thread EXCEPT ![a][i] =
                  [@ EXCEPT !.pc = "incr", !.read_total = total_profit_locks[a]]]
    /\ lock_triggers' = [lock_triggers EXCEPT ![a] = @ + 1]
    /\ UNCHANGED <<monitoring_active, total_profit_locks, polls_while_cleared>>
    /\ UNCHANGED <<RequestSide, ExchangeSide>>

\* line 247, the store of `self.total_profit_locks += 1`; then the next
\* position or time.sleep(5)
MonitorCount(a, i) ==
    /\ monitor_thread[a][i].pc = "incr"
    /\ total_profit_locks' = [total_profit_locks EXCEPT ![a] =
           monitor_thread[a][i].read_total + 1]
    /\ monitor_thread' = [monitor_thread EXCEPT ![a][i] =
           IF Tail(@.positions) = <<>>
           THEN [NoLoop EXCEPT !.pc = "sleep"]
           ELSE [@ EXCEPT !.pc = "proc", !.positions = Tail(@), !.read_total = 0]]
    /\ UNCHANGED <<monitoring_active, profit_locks, polls_while_cleared,
                   lock_triggers>>
    /\ UNCHANGED <<RequestSide, ExchangeSide>>

\* line 186, every position returned kept for the for loop: fetch_positions
\* raises (handled at 207-209) or returns a list of positions
MonitorPollAll(a, i) ==
    /\ monitor_thread[a][i].pc = "poll"
    /\ polls_while_cleared' = [polls_while_cleared EXCEPT ![a] =
           IF ~monitoring_active[a] /\ @ < 3 THEN @ + 1 ELSE @]
    /\ \/ monitor_thread' = [monitor_thread EXCEPT ![a][i].pc = "sleep_err"]
       \/ \E positions \in PositionLists :
              /\ total_profit_locks[a] + Len(Locking(a, positions)) <= MaxLocks
              /\ monitor_thread' = [monitor_thread EXCEPT ![a][i] =
                     IF positions = <<>>
                     THEN [@ EXCEPT !.pc = "sleep", !.stop_calls = 0]
                     ELSE [@ EXCEPT !.pc = "each", !.positions = positions,
                                    !.stop_calls = 0]]
    /\ UNCHANGED <<monitoring_active, profit_locks, total_profit_locks,
                   lock_triggers>>
    /\ UNCHANGED <<RequestSide, ExchangeSide>>

\* lines 188-203 for one position of the list: the dust test, the profit
\* percentage, and at or above the threshold update_stop_loss (submitting
\* StopOrder or raising, swallowed at 235) and _record_profit_lock; then the
\* next position or time.sleep(5)
MonitorForEach(a, i) ==
    /\ monitor_thread[a][i].pc = "each"
    /\ \E stop_submitted \in BOOLEAN :
           LET position == Head(monitor_thread[a][i].positions)
               rest == Tail(monitor_thread[a][i].positions)
               locks == LocksProfit(a, position)
           IN  /\ profit_locks' =
                      IF locks
                      THEN [profit_locks EXCEPT ![a] =
                               RecordProfitLock(@, position.symbol,
                                                ProfitPercentage(a, position))]
                      ELSE profit_locks
               /\ total_profit_locks' =
                      IF locks THEN [total_profit_locks EXCEPT ![a] = @ + 1]
                      ELSE total_profit_locks
               /\ lock_triggers' =
                      IF locks THEN [lock_triggers EXCEPT ![a] = @ + 1]
                      ELSE lock_triggers
               /\ monitor_thread' = [monitor_thread EXCEPT ![a][i] =
                      [@ EXCEPT !.pc = IF rest = <<>> THEN "sleep" ELSE "each",
                                !.positions = rest,
                                !.stop_calls = IF locks THEN @ + 1 ELSE @]]
    /\ UNCHANGED <<monitoring_active, polls_while_cleared>>
    /\ UNCHANGED <<RequestSide, ExchangeSide>>

\* lines 205 / 209: the sleep ends
MonitorSleep(a, i) ==
    /\ monitor_thread[a][i].pc \in {"sleep", "sleep_err"}
    /\ monitor_thread' = [monitor_thread EXCEPT ![a][i].pc = "top"]
    /\ UNCHANGED <<monitoring_active, profit_locks, total_profit_locks,
                   polls_while_cleared, lock_triggers>>
    /\ UNCHANGED <<RequestSide, ExchangeSide>>

\* toggle_monitor calling start_profit_monitor whenever it sets the flag
ToggleMonitorStarting(a) ==
    /\ monitoring_active' = [monitoring_active EXCEPT ![a] = ~@]
    /\ polls_while_cleared' = [polls_while_cleared EXCEPT ![a] =
           IF monitoring_active[a] THEN 0 ELSE @]
    /\ monitor_thread' = [monitor_thread EXCEPT ![a] =
           IF monitoring_active[a] THEN @ ELSE StartProfitMonitor(@)]
    /\ UNCHANGED <<profit_locks, total_profit_locks, lock_triggers>>
    /\ UNCHANGED <<RequestSide, ExchangeSide>>

\* control_account, action 'toggle_monitor': the flag is flipped, nothing
\* else (polls_while_cleared restarts when the flag is cleared)
ToggleMonitor(a) ==
    /\ monitoring_active' = [monitoring_active EXCEPT ![a] = ~@]
    /\ polls_while_cleared' = [polls_while_cleared EXCEPT ![a] =
           IF monitoring_active[a] THEN 0 ELSE @]
    /\ UNCHANGED <<profit_locks, total_profit_locks, monitor_thread,
                   lock_triggers>>
    /\ UNCHANGED <<RequestSide, ExchangeSide>>

----------------------------------------------------------------------------
(* BybitTradeExecutor.__init__ for every account of ACCOUNT_CONFIGS *)

----------------------------------------------------------------------------
(* The position book of the exchange.  The account's position on the first *)
(* symbol is kept (one-way mode: an order is netted against the position), *)
(* so that what one thread reads is what the other thread's orders left.   *)

\* no position
Flat == [symbol |-> Symbols[1], side |-> "buy", contracts |-> 0, entryPrice |-> 100]

\* the position as a signed amount: long positive, short negative
Signed(position) ==
    IF position.side = "buy" THEN position.contracts ELSE 0 - position.contracts

\* the position after the exchange has executed an order of `amount`
\* (units of 0.00001) on `side` at `price`; a reduce-only order takes the
\* position towards zero at most
Fill(position, side, amount, reduce_only, price) ==
    LET held == Signed(position)
        delta == IF side = "buy" THEN amount ELSE 0 - amount
        net == IF ~reduce_only THEN held + delta
               ELSE IF held > 0 /\ delta < 0
                    THEN IF held + delta > 0 THEN held + delta ELSE 0
               ELSE IF held < 0 /\ delta > 0
                    THEN IF held + delta < 0 THEN held + delta ELSE 0
               ELSE held
    IN  IF net = 0 THEN [Flat EXCEPT !.symbol = position.symbol]
        ELSE [symbol |-> position.symbol,
              side |-> IF net > 0 THEN "buy" ELSE "sell",
              contracts |-> Abs(net),
              entryPrice |-> IF held = 0 \/ (held > 0) # (net > 0)
                             THEN price ELSE position.entryPrice]

\* the close orders of close_all_positions executed one after the other
RECURSIVE FillAll(_, _)
FillAll(position, orders) ==
    IF orders = <<>> THEN position
    ELSE FillAll(IF Head(orders).symbol = position.symbol
                 THEN Fill(position, Head(orders).side, Head(orders).amount,
                           Head(orders).reduce_only, position.entryPrice)
                 ELSE position,
                 Tail(orders))

\* fetch_positions() / fetch_positions([symbol]) answered from the book,
\* with the unrealised profit of the moment
BookPositions(a, symbol, pnl) ==
    IF symbol = exchange_positions[a].symbol /\ exchange_positions[a].contracts > 0
    THEN <<[symbol |-> symbol, side |-> exchange_positions[a].side,
            contracts |-> exchange_positions[a].contracts,
            unrealizedPnl |-> pnl,
            entryPrice |-> exchange_positions[a].entryPrice,
            markPrice |-> 103]>>
    ELSE <<>>

\* place_order line 125, check_existing_position answered from the book
CheckExistingPositionBook(w) ==
    /\ worker[w].pc = "po_probe"
    /\ \/ worker' = [worker EXCEPT ![w] =
              PlaceOrderExcept([@ EXCEPT !.calls = @ + 1, !.failed_at = "probe"])]
       \/ \E pnl \in PnlValues :
              LET positions == BookPositions(Acct(w), worker[w].symbol, pnl)
              IN  worker' = [worker EXCEPT ![w] =
                      [@ EXCEPT !.pc = "po_leverage", !.calls = @ + 1,
                                !.probe = positions,
                                !.position_multiplier =
                                    PositionMultiplier(positions, worker[w].side)]]
    /\ UNCHANGED <<trading_enabled, trade_history, failed_trades, signals,
                   placements>>
    /\ UNCHANGED <<MonitorSide, ExchangeSide>>

\* close_all_positions on the book: the positions fetched are those of the
\* book and the close orders submitted are executed
CloseAllPositionsBook(w) ==
    /\ worker[w].pc = "bal_close"
    /\ \/ /\ worker' = [worker EXCEPT ![w] =
                 [@ EXCEPT !.pc = "bal_disable", !.calls = @ + 1,
                           !.flat_raised = TRUE]]
          /\ UNCHANGED exchange_positions
       \/ \E pnl \in PnlValues, fail_at \in 0..1 :
              LET fetched == BookPositions(Acct(w), Symbols[1], pnl)
                  positions == [k \in 1..Len(fetched) |-> CloseView(fetched[k])]
              IN  /\ worker' = [worker EXCEPT ![w] =
                         [@ EXCEPT !.pc = "bal_disable",
                                   !.calls = @ + 1 + CloseCalls(positions, fail_at, 0),
                                   !.snap = positions,
                                   !.flat = CloseLoop(positions, fail_at, 0),
                                   !.flat_raised =
                                       CloseCalls(positions, fail_at, 0)
                                           > Len(CloseLoop(positions, fail_at, 0))]]
                  /\ exchange_positions' = [exchange_positions EXCEPT ![Acct(w)] =
                         FillAll(@, CloseLoop(positions, fail_at, 0))]
    /\ UNCHANGED <<trading_enabled, trade_history, failed_trades, signals,
                   placements>>
    /\ UNCHANGED MonitorSide

\* place_order lines 141-165 on the book: the entry order accepted is
\* executed at the price fetched (order sizes are in thousandths)
CreateOrderBook(w) ==
    /\ worker[w].pc = "po_order"
    /\ \/ /\ worker' = [worker EXCEPT ![w] =
                 PlaceOrderExcept([@ EXCEPT !.calls = @ + 1, !.failed_at = "order"])]
          /\ UNCHANGED <<trade_history, placements, exchange_positions>>
       \/ /\ trade_history' = [trade_history EXCEPT ![Acct(w)] =
                 LogTrade(@, TradeData(worker[w].symbol, worker[w].side))]
          /\ placements' = [placements EXCEPT ![Acct(w)] = @ + 1]
          /\ worker' = [worker EXCEPT ![w] =
                 [@ EXCEPT !.pc = "po_return", !.calls = @ + 1,
                           !.entries = @ + 1,
                           !.order = EntryOrder(Acct(w), worker[w].symbol,
                                                worker[w].side,
                                                worker[w].position_size,
                                                worker[w].current_price),
                           !.logged = @ + Len(trade_history'[Acct(w)])
                                        - Len(trade_history[Acct(w)]),
                           !.result = "success"]]
          /\ exchange_positions' = [exchange_positions EXCEPT ![Acct(w)] =
                 IF worker[w].symbol = @.symbol
                 THEN Fill(@, Lower(worker[w].side), worker[w].position_size * 100,
                           FALSE, worker[w].current_price)
                 ELSE @]
    /\ UNCHANGED <<trading_enabled, failed_trades, signals>>
    /\ UNCHANGED MonitorSide

\* lines 186-201 with fetch_positions() answered from the book
MonitorPollBook(a, i) ==
    /\ monitor_thread[a][i].pc = "poll"
    /\ polls_while_cleared' = [polls_while_cleared EXCEPT ![a] =
           IF ~monitoring_active[a] /\ @ < 3 THEN @ + 1 ELSE @]
    /\ \/ monitor_thread' = [monitor_thread EXCEPT ![a][i].pc = "sleep_err"]
       \/ \E pnl \in PnlValues :
              LET locking == Locking(a, BookPositions(a, Symbols[1], pnl))
              IN  /\ total_profit_locks[a] + Len(locking) <= MaxLocks
                  /\ monitor_thread' = [monitor_thread EXCEPT ![a][i] =
                         IF locking = <<>>
                         THEN [@ EXCEPT !.pc = "sleep"]
                         ELSE [@ EXCEPT !.pc = "proc", !.positions = locking]]
    /\ UNCHANGED <<monitoring_active, profit_locks, total_profit_locks,
                   lock_triggers>>
    /\ UNCHANGED <<RequestSide, ExchangeSide>>

\* the executors, one per account
ExecutorsInit ==
    /\ trading_enabled = [a \in Accounts |-> TRUE]
    /\ monitoring_active = config_monitoring_active
    /\ trade_history = [a \in Accounts |-> <<>>]
    /\ failed_trades = [a \in Accounts |-> <<>>]
    /\ profit_locks = [a \in Accounts |-> <<>>]
    /\ total_profit_locks = [a \in Accounts |-> 0]
    /\ monitor_thread = [a \in Accounts |->
           IF config_monitoring_active[a]
           THEN StartProfitMonitor([i \in LoopIds |-> NoLoop])
           ELSE [i \in LoopIds |-> NoLoop]]
    /\ signals = 0
    /\ polls_while_cleared = [a \in Accounts |-> 0]
    /\ placements = [a \in Accounts |-> 0]
    /\ lock_triggers = [a \in Accounts |-> 0]
    /\ exchange_positions = [a \in Accounts |-> Flat]

Init ==
    /\ ExecutorsInit
    /\ worker = [w \in Workers |-> Idle]

RequestNext ==
    \/ \E w \in Workers, symbol \in SignalSymbols, side \in SignalSides :
           Webhook(w, symbol, side)
    \/ \E w \in Workers : WebhookGate(w)
    \/ \E w \in Workers : PlaceOrderGate(w)
    \/ \E w \in Workers : CheckExistingPosition(w)
    \/ \E w \in Workers : SetLeverage(w)
    \/ \E w \in Workers : GetWalletBalance(w)
    \/ \E w \in Workers : CloseAllPositions(w)
    \/ \E w \in Workers : DisableTrading(w)
    \/ \E w \in Workers : FetchTicker(w)
    \/ \E w \in Workers : MarketPrecision(w)
    \/ \E w \in Workers : CreateOrder(w)
    \/ \E w \in Workers : PlaceOrderReturn(w)
    \/ \E w \in Workers : WebhookReturn(w)
    \/ \E w \in Workers, a \in Accounts : GetAccountStatus(w, a)
    \/ \E w \in Workers : StatusReturn(w)
    \/ \E a \in Accounts : Pause(a)
    \/ \E a \in Accounts : Resume(a)

MonitorNext ==
    \/ \E a \in Accounts, i \in LoopIds : MonitorTop(a, i)
    \/ \E a \in Accounts, i \in LoopIds : MonitorPoll(a, i)
    \/ \E a \in Accounts, i \in LoopIds : MonitorLock(a, i)
    \/ \E a \in Accounts, i \in LoopIds : MonitorCount(a, i)
    \/ \E a \in Accounts, i \in LoopIds : MonitorSleep(a, i)
    \/ \E a \in Accounts : ToggleMonitor(a)

Next == RequestNext \/ MonitorNext

\* the request side
Spec == Init /\ [][RequestNext]_vars

\* the steps of a place_order invocation in the request of worker w
PlaceOrderStep(w) ==
    /\ worker[w].kind = "webhook"
    /\ \/ PlaceOrderGate(w)
       \/ CheckExistingPosition(w)
       \/ SetLeverage(w)
       \/ GetWalletBalance(w)
       \/ CloseAllPositions(w)
       \/ DisableTrading(w)
       \/ FetchTicker(w)
       \/ MarketPrecision(w)
       \/ CreateOrder(w)

\* the monitor side
MonSpec == Init /\ [][MonitorNext]_vars

\* the monitor side, every thread being scheduled again and again and every
\* sleep ending
MonitorStep(a, i) ==
    \/ MonitorTop(a, i)
    \/ MonitorPoll(a, i)
    \/ MonitorLock(a, i)
    \/ MonitorCount(a, i)
    \/ MonitorSleep(a, i)

MonFairness == \A a \in Accounts, i \in LoopIds : WF_vars(MonitorStep(a, i))

FairMonSpec == Init /\ [][MonitorNext]_vars /\ MonFairness

\* both
FullSpec == Init /\ [][Next]_vars

\* no loop of another account is inside an iteration
OthersAtTop(a) ==
    \A b \in Accounts \ {a}, j \in LoopIds :
        monitor_thread[b][j].pc \in {"none", "top"}

\* the monitor loops taken position by position, with every position a poll
\* returns; the accounts' loops run their iterations one after the other
\* (they share no field)
IterNext ==
    \/ \E a \in Accounts, i \in LoopIds : OthersAtTop(a) /\ MonitorTop(a, i)
    \/ \E a \in Accounts, i \in LoopIds : OthersAtTop(a) /\ MonitorPollAll(a, i)
    \/ \E a \in Accounts, i \in LoopIds : OthersAtTop(a) /\ MonitorForEach(a, i)
    \/ \E a \in Accounts, i \in LoopIds : OthersAtTop(a) /\ MonitorSleep(a, i)

IterSpec == Init /\ [][IterNext]_vars

\* Flask serves requests in concurrent threads: two webhook requests in
\* flight at once
ConcWorkers == {"w1", "w2"}

ConcInit ==
    /\ ExecutorsInit
    /\ worker = [w \in ConcWorkers |-> Idle]

\* the account whose monitor thread runs beside the requests
ConcAccount == AccountOrder[1]

\* two concurrent webhook requests and a monitor thread, interleaved step by
\* step.  The exchange is the one of the other specifications with fewer
\* answers: no position is open on the signal's symbol when place_order
\* probes it, every balance fetched is 250 (the circuit breaker stays out),
\* every price 100, and a poll of the monitor returns at most one position
\* to handle, a long one on the first symbol; every call can still raise.
ConcNext ==
    \/ \E w \in ConcWorkers, symbol \in SignalSymbols :
           Webhook(w, symbol, "BUY")
    \/ \E w \in ConcWorkers : WebhookGate(w)
    \/ \E w \in ConcWorkers : PlaceOrderGate(w)
    \/ \E w \in ConcWorkers :
           CheckExistingPosition(w) /\ worker'[w].position_multiplier <= 1
    \/ \E w \in ConcWorkers : SetLeverage(w)
    \/ \E w \in ConcWorkers :
           GetWalletBalance(w) /\ worker'[w].balance \in {0, 250}
    \/ \E w \in ConcWorkers :
           FetchTicker(w) /\ worker'[w].current_price \in {0, 100}
    \/ \E w \in ConcWorkers : MarketPrecision(w)
    \/ \E w \in ConcWorkers : CreateOrder(w)
    \/ \E w \in ConcWorkers : PlaceOrderReturn(w)
    \/ \E w \in ConcWorkers : WebhookReturn(w)
    \/ \E i \in LoopIds : MonitorTop(ConcAccount, i)
    \/ \E i \in LoopIds :
           MonitorPoll(ConcAccount, i)
               /\ \A k \in 1..Len(monitor_thread'[ConcAccount][i].positions) :
                      /\ k = 1
                      /\ monitor_thread'[ConcAccount][i].positions[k].symbol
                             = Symbols[1]
                      /\ monitor_thread'[ConcAccount][i].positions[k].side = "buy"
    \/ \E i \in LoopIds : MonitorLock(ConcAccount, i)
    \/ \E i \in LoopIds : MonitorCount(ConcAccount, i)
    \/ \E i \in LoopIds : MonitorSleep(ConcAccount, i)

ConcSpec == ConcInit /\ [][ConcNext]_vars

\* one webhook request at a time and the monitor thread of the first
\* account, interleaved step by step, over the position book: the probe of
\* place_order, the flattening of the circuit breaker and the poll of the
\* monitor read the book, and the orders accepted are executed on it.  The
\* balance fetched is 50 (below both thresholds) or 250, the price 100;
\* every call can still raise.
RaceNext ==
    \/ \E w \in Workers, symbol \in SignalSymbols, side \in SignalSides :
           Webhook(w, symbol, side)
    \/ \E w \in Workers : WebhookGate(w)
    \/ \E w \in Workers : PlaceOrderGate(w)
    \/ \E w \in Workers : CheckExistingPositionBook(w)
    \/ \E w \in Workers : SetLeverage(w)
    \/ \E w \in Workers :
           GetWalletBalance(w) /\ worker'[w].balance \in {0, 50, 250}
    \/ \E w \in Workers : CloseAllPositionsBook(w)
    \/ \E w \in Workers : DisableTrading(w)
    \/ \E w \in Workers :
           FetchTicker(w) /\ worker'[w].current_price \in {0, 100}
    \/ \E w \in Workers : MarketPrecision(w)
    \/ \E w \in Workers : CreateOrderBook(w)
    \/ \E w \in Workers : PlaceOrderReturn(w)
    \/ \E w \in Workers : WebhookReturn(w)
    \/ \E i \in LoopIds : MonitorTop(ConcAccount, i)
    \/ \E i \in LoopIds : MonitorPollBook(ConcAccount, i)
    \/ \E i \in LoopIds : MonitorLock(ConcAccount, i)
    \/ \E i \in LoopIds : MonitorCount(ConcAccount, i)
    \/ \E i \in LoopIds : MonitorSleep(ConcAccount, i)

RaceSpec == Init /\ [][RaceNext]_vars

----------------------------------------------------------------------------
(* Properties *)

\* the place_order invocation of worker w has ended (its result is about to
\* be stored by webhook())
Returned(w) == worker[w].pc = "po_return"

\* the balance the invocation of worker w fetched was below the threshold
SawLowBalance(w) ==
    /\ worker[w].balance # 0
    /\ worker[w].balance < balance_threshold[Acct(w)]

\* C1: every place_order invocation that passed the gate check and then
\* failed (no entry order went through) has appended exactly one entry to
\* failed_trades and none to trade_history, and returns an error result.
C1_FailureRecorded ==
    \A w \in Workers :
        (Returned(w) /\ worker[w].gate = "open" /\ worker[w].entries = 0)
            => /\ worker[w].failed_logged = 1
               /\ worker[w].logged = 0
               /\ worker[w].result = "error"

\* C2: a place_order invocation whose balance fetch returned less than
\* balance_threshold submits no entry order and returns an error result.
C2_LowBalanceBlocksOrder ==
    \A w \in Workers :
        (Returned(w) /\ SawLowBalance(w))
            => /\ worker[w].entries = 0
               /\ worker[w].result = "error"

\* C3: a place_order invocation that found trading_enabled false at its gate
\* check is at its return at once, with an error result, no exchange call,
\* no entry order and nothing appended to trade_history or failed_trades.
C3_DisabledGate ==
    \A w \in Workers :
        worker[w].gate = "closed"
            => /\ Returned(w)
               /\ worker[w].result = "error"
               /\ worker[w].calls = 0
               /\ worker[w].entries = 0
               /\ worker[w].logged = 0
               /\ worker[w].failed_logged = 0

\* C3 witness: place_order was called after trading was switched off (between
\* the dispatcher's check and place_order's own) and has returned.
C3_Witness ==
    \E w \in Workers :
        Returned(w) /\ worker[w].gate = "closed" /\ ~trading_enabled[Acct(w)]

\* C4: a place_order invocation whose create_order succeeded has submitted
\* exactly one entry order, appended exactly one record to trade_history and
\* none to failed_trades, and returns a success result.
C4_SuccessRecorded ==
    \A w \in Workers :
        (Returned(w) /\ worker[w].entries >= 1)
            => /\ worker[w].entries = 1
               /\ worker[w].logged = 1
               /\ worker[w].failed_logged = 0
               /\ worker[w].result = "success"

\* C4 witness: an invocation has returned after its entry order went through.
C4_Witness ==
    \E w \in Workers :
        /\ Returned(w) /\ worker[w].entries = 1
        /\ trade_history[Acct(w)] # <<>>

\* C5: trading_enabled goes from false to true only in a step of the
\* 'resume' control action.
C5_OnlyResumeReenables ==
    [][\A a \in Accounts :
           (~trading_enabled[a] /\ trading_enabled'[a]) => Resume(a)]_vars

\* C5 witness: the circuit breaker has switched trading off inside a
\* place_order invocation, the invocation has run to its end, and trading is
\* still off.
C5_Witness ==
    \E w \in Workers :
        Returned(w) /\ SawLowBalance(w) /\ ~trading_enabled[Acct(w)]

\* C6: whenever get_wallet_balance, having seen a balance below the
\* threshold, is left (returning or raising), trading_enabled is false in
\* the state it is left in.
C6_BreakerDisables ==
    [][\A w \in Workers :
           (/\ worker[w].pc \in {"bal_close", "bal_disable"}
            /\ worker'[w].pc \notin {"bal_close", "bal_disable"})
               => ~trading_enabled'[AccountOrder[worker[w].acct]]]_vars

\* C6 witness: a balance check whose flattening raised has returned with
\* trading switched off.
C6_Witness ==
    \E w \in Workers :
        /\ worker[w].pc \in {"po_ticker", "st_return"}
        /\ SawLowBalance(w)
        /\ worker[w].flat_raised
        /\ ~trading_enabled[Acct(w)]

\* the reduce-only market order that closes a position in full
Flattens(order, position) ==
    /\ order.symbol = position.symbol
    /\ order.type = "market"
    /\ order.reduce_only
    /\ order.amount = Abs(position.contracts)
    /\ \/ position.side = "buy" /\ order.side = "sell"
       \/ position.side = "sell" /\ order.side = "buy"

\* C7: when the balance check has seen a balance below the threshold and no
\* exchange call of the flattening raised, then before trading_enabled is
\* written a reduce-only market order on the opposite side and of the full
\* size has been submitted for every open position fetched, and nothing
\* else; and no step of a balance check turns a false trading_enabled true.
C7_FlattenThenDisable ==
    /\ [](\A w \in Workers :
            (worker[w].pc = "bal_disable" /\ ~worker[w].flat_raised)
                => /\ \A k \in 1..Len(worker[w].snap) :
                          Abs(worker[w].snap[k].contracts) > 0
                              => \E j \in 1..Len(worker[w].flat) :
                                     Flattens(worker[w].flat[j], worker[w].snap[k])
                   /\ \A j \in 1..Len(worker[w].flat) :
                          \E k \in 1..Len(worker[w].snap) :
                              /\ Abs(worker[w].snap[k].contracts) > 0
                              /\ Flattens(worker[w].flat[j], worker[w].snap[k]))
    /\ [][\A w \in Workers :
            (/\ worker[w].pc \in {"bal_fetch", "bal_close", "bal_disable"}
             /\ worker'[w] # worker[w]
             /\ ~trading_enabled[AccountOrder[worker[w].acct]])
                => ~trading_enabled'[AccountOrder[worker[w].acct]]]_vars

\* C7 witness: a balance check made while trading is already off has
\* flattened two open positions and is about to write trading_enabled.
C7_Witness ==
    \E w \in Workers :
        /\ worker[w].pc = "bal_disable"
        /\ ~worker[w].flat_raised
        /\ Len(worker[w].flat) = 2
        /\ ~trading_enabled[Acct(w)]

\* the monitor loops of account a that are running
RunningLoops(a) == {i \in LoopIds : Running(monitor_thread[a][i])}

\* C8: whenever toggle_monitor sets monitoring_active from false to true, a
\* monitor loop of that account is running afterwards.
C8_ToggleOnStartsLoop ==
    [][\A a \in Accounts :
           (~monitoring_active[a] /\ monitoring_active'[a])
               => \E i \in LoopIds : Running(monitor_thread'[a][i])]_vars

\* C9: at most one monitor loop is running per account.
C9_AtMostOneLoop ==
    \A a \in Accounts : Cardinality(RunningLoops(a)) <= 1

\* C9 witness: the flag was cleared, the running loop polled once more, the
\* flag was set again before the loop reached its loop-top check with the
\* flag cleared, and that loop is running.
C9_Witness ==
    \E a \in Accounts :
        /\ monitoring_active[a]
        /\ polls_while_cleared[a] = 1
        /\ Cardinality(RunningLoops(a)) = 1

\* C10: after monitoring_active is cleared at most one poll is made with the
\* flag cleared (that of the iteration in flight); a loop-top check that
\* finds the flag cleared ends the loop; and if the flag stays cleared every
\* loop of the account ends.
C10_ClearedStopsPolling ==
    /\ [](\A a \in Accounts : polls_while_cleared[a] <= 1)
    /\ [][\A a \in Accounts, i \in LoopIds :
            (/\ monitor_thread[a][i].pc = "top"
             /\ monitor_thread'[a][i].pc # "top"
             /\ ~monitoring_active[a])
                => monitor_thread'[a][i].pc = "exited"]_vars
    /\ \A a \in Accounts :
           <>[](~monitoring_active[a]) => <>[](RunningLoops(a) = {})

\* C10 witness: the flag is cleared, the iteration in flight made its poll
\* with the flag cleared, and the loop has ended.
C10_Witness ==
    \E a \in Accounts :
        /\ ~monitoring_active[a]
        /\ polls_while_cleared[a] = 1
        /\ RunningLoops(a) = {}

\* C11: an exception of fetch_positions or of the stop order never ends a
\* monitor loop: a loop ends only at a loop-top check that finds
\* monitoring_active false; every iteration, failed or not, ends in one
\* sleep, the sleep leads to the loop-top check, and that check, with the
\* flag set, to the next poll; and a running loop polls again and again
\* unless the flag is cleared.
C11_FailureKeepsLooping ==
    /\ [][\A a \in Accounts, i \in LoopIds :
            (monitor_thread[a][i].pc # "exited" /\ monitor_thread'[a][i].pc = "exited")
                => monitor_thread[a][i].pc = "top" /\ ~monitoring_active[a]]_vars
    /\ [][\A a \in Accounts, i \in LoopIds :
            /\ (/\ monitor_thread[a][i].pc \in {"poll", "proc", "incr"}
                /\ monitor_thread'[a][i].pc \notin {"poll", "proc", "incr"})
                   => monitor_thread'[a][i].pc \in {"sleep", "sleep_err"}
            /\ (/\ monitor_thread[a][i].pc \in {"sleep", "sleep_err"}
                /\ monitor_thread'[a][i].pc # monitor_thread[a][i].pc)
                   => monitor_thread'[a][i].pc = "top"
            /\ (/\ monitor_thread[a][i].pc = "top"
                /\ monitor_thread'[a][i].pc # "top"
                /\ monitoring_active[a])
                   => monitor_thread'[a][i].pc = "poll"]_vars
    /\ \A a \in Accounts, i \in LoopIds :
           []<>(\/ monitor_thread[a][i].pc = "poll"
                \/ ~Running(monitor_thread[a][i])
                \/ ~monitoring_active[a])

\* C11 witness: with the flag set, a loop is in the sleep of the except
\* branch after fetch_positions raised, having recorded a profit lock in an
\* earlier iteration.
C11_Witness ==
    \E a \in Accounts, i \in LoopIds :
        /\ monitoring_active[a]
        /\ monitor_thread[a][i].pc = "sleep_err"
        /\ total_profit_locks[a] >= 1

\* the number of events in a profit_locks dict
RECURSIVE EventCount(_, _)
EventCount(locks, symbols) ==
    IF symbols = {} THEN 0
    ELSE LET symbol == CHOOSE x \in symbols : TRUE
         IN  Len(locks[symbol]) + EventCount(locks, symbols \ {symbol})

\* C12: with place_order invocations of concurrent requests and monitor
\* iterations interleaved on an account, no append and no counter update is
\* lost: trade_history holds one record per accepted entry order, the
\* profit_locks lists hold one event per trigger, and total_profit_locks
\* equals the number of triggers whenever no store of its += is pending.
C12_NoLostUpdate ==
    \A a \in Accounts :
        /\ Len(trade_history[a]) = placements[a]
        /\ EventCount(profit_locks[a], DOMAIN profit_locks[a]) = lock_triggers[a]
        /\ (\A i \in LoopIds : monitor_thread[a][i].pc # "incr")
               => total_profit_locks[a] = lock_triggers[a]

\* C12 witness: two requests were inside place_order for the same account at
\* the same time and both have had their entry order accepted, and the
\* account's monitor has triggered twice and finished both updates.
C12_Witness ==
    \E a \in Accounts :
        /\ \A w \in ConcWorkers :
               /\ worker[w].pc = "po_return"
               /\ Acct(w) = a
               /\ worker[w].entries = 1
        /\ placements[a] = 2
        /\ lock_triggers[a] = 2
        /\ \A i \in LoopIds : monitor_thread[a][i].pc # "incr"

\* the steps of place_order and get_wallet_balance that wait for an answer
\* of the exchange
ExchangeCallPcs ==
    {"po_probe", "po_leverage", "bal_fetch", "bal_close", "po_ticker",
     "po_market", "po_order"}

\* a step by which the request of worker w comes to a later account of the
\* fan-out
StartsLaterAccount(w) == RequestNext /\ worker'[w].acct > worker[w].acct

\* C13: while the place_order of a signal for one account waits for an
\* answer of the exchange, the place_order of the same signal for the
\* accounts after it can start without that answer, and the monitor loops
\* of the other accounts can take their next step.
C13_BlockedCallStallsNoOther ==
    \A w \in Workers :
        (/\ worker[w].kind = "webhook"
         /\ worker[w].pc \in ExchangeCallPcs
         /\ worker[w].acct < Len(AccountOrder))
            => /\ ENABLED StartsLaterAccount(w)
               /\ \A b \in Accounts \ {Acct(w)}, i \in LoopIds :
                      Running(monitor_thread[b][i]) => ENABLED MonitorStep(b, i)

\* C14: the fan-out of a signal handles the accounts in turn and stores one
\* response, success or error, for each, whatever happened for the accounts
\* before; and a step of the request made for one account leaves the
\* trading_enabled, trade_history, failed_trades and order count of every
\* other account as they are.
C14_OneResultPerAccount ==
    /\ [](\A w \in Workers :
            /\ \A k \in 1..Len(worker[w].responses) :
                   worker[w].responses[k] \in {"success", "error"}
            /\ worker[w].pc = "wh_return"
                   => Len(worker[w].responses) = Len(AccountOrder)
            /\ (worker[w].kind = "webhook" /\ worker[w].pc # "wh_return")
                   => Len(worker[w].responses) = worker[w].acct - 1)
    /\ [][\A w \in Workers, a \in Accounts :
            (/\ worker[w].kind = "webhook"
             /\ worker[w].acct >= 1
             /\ worker'[w] # worker[w]
             /\ a # AccountOrder[worker[w].acct])
                => /\ trading_enabled'[a] = trading_enabled[a]
                   /\ trade_history'[a] = trade_history[a]
                   /\ failed_trades'[a] = failed_trades[a]
                   /\ placements'[a] = placements[a]]_vars

\* C14 witness: the fan-out is about to return; the first account's
\* placement failed and the second account's went through.
C14_Witness ==
    \E w \in Workers :
        /\ worker[w].pc = "wh_return"
        /\ worker[w].responses = <<"error", "success">>
        /\ placements[AccountOrder[2]] >= 1

\* the positions of a request inside place_order, in the order of the code
PlaceOrderPcs ==
    <<"po_gate", "po_probe", "po_leverage", "bal_fetch", "bal_close",
      "bal_disable", "po_ticker", "po_market", "po_order", "po_return">>

PcRank(pc) ==
    IF \E k \in 1..Len(PlaceOrderPcs) : PlaceOrderPcs[k] = pc
    THEN CHOOSE k \in 1..Len(PlaceOrderPcs) : PlaceOrderPcs[k] = pc
    ELSE 0

\* C15: a place_order invocation never ends in an exception: whichever of
\* its exchange calls raise, it has a next step until it returns, every
\* step takes it further down its code (so it returns after at most nine
\* steps), and what it returns has status success or error.
C15_AlwaysStructuredResult ==
    /\ [](\A w \in Workers :
            worker[w].kind = "webhook"
                => /\ worker[w].result \in {"none", "success", "error"}
                   /\ worker[w].pc = "po_return"
                          <=> worker[w].result \in {"success", "error"}
                   /\ PcRank(worker[w].pc) \in 1..9 => ENABLED PlaceOrderStep(w))
    /\ [][\A w \in Workers :
            (/\ worker[w].kind = "webhook"
             /\ PcRank(worker[w].pc) \in 1..9
             /\ worker'[w] # worker[w])
                => PcRank(worker'[w].pc) > PcRank(worker[w].pc)]_vars

\* C15 witness: an invocation whose probe, leverage, balance, ticker and
\* precision calls were answered and whose create_order raised has returned
\* an error.
C15_Witness ==
    \E w \in Workers :
        /\ Returned(w)
        /\ worker[w].failed_at = "order"
        /\ worker[w].result = "error"
        /\ worker[w].calls >= 6

\* a requested side, whatever its letter case
IsBuy(side) == side \in {"buy", "Buy", "BUY"}
IsSell(side) == side \in {"sell", "Sell", "SELL"}

\* C16: the size multiplier place_order computes is 2 exactly when the
\* probe of the symbol returned a position above the dust threshold whose
\* side is opposite to the requested side, whatever the letter case of the
\* request, and 1 in every other case.
C16_MultiplierTwoIffOpposite ==
    \A w \in Workers :
        worker[w].pc = "po_leverage"
            => /\ worker[w].position_multiplier \in {1, 2}
               /\ worker[w].position_multiplier = 2
                      <=> \E k \in 1..Len(worker[w].probe) :
                              /\ Abs(worker[w].probe[k].contracts) > 1
                              /\ \/ /\ worker[w].probe[k].side = "buy"
                                    /\ IsSell(worker[w].side)
                                 \/ /\ worker[w].probe[k].side = "sell"
                                    /\ IsBuy(worker[w].side)

\* C16 witness: a BUY signal (upper case) found an open sell position and
\* the multiplier is 2.
C16_Witness ==
    \E w \in Workers :
        /\ worker[w].pc = "po_leverage"
        /\ worker[w].side = "BUY"
        /\ worker[w].probe # <<>>
        /\ worker[w].probe[1].side = "sell"
        /\ worker[w].probe[1].contracts > 1
        /\ worker[w].position_multiplier = 2

\* C17: the entry order of a long request carries takeProfit = P * (1 + tp)
\* and stopLoss = P * (1 - sl), that of a short request takeProfit =
\* P * (1 - tp) and stopLoss = P * (1 + sl), P being the price fetched,
\* whatever the letter case of the side; so the take profit lies on the
\* profit side of P and the stop loss on the loss side (prices in
\* hundredths, tp and sl in percent).
C17_BracketPrices ==
    \A w \in Workers :
        (Returned(w) /\ worker[w].entries = 1)
            => LET P == worker[w].current_price
                   tp == initial_tp_percentage[Acct(w)]
                   sl == initial_sl_percentage[Acct(w)]
                   order == worker[w].order
               IN  /\ IsBuy(worker[w].side) \/ IsSell(worker[w].side)
                   /\ IsBuy(worker[w].side)
                          => /\ order.takeProfit = 100 * P + tp * P
                             /\ order.stopLoss = 100 * P - sl * P
                             /\ order.stopLoss < 100 * P
                             /\ 100 * P < order.takeProfit
                   /\ IsSell(worker[w].side)
                          => /\ order.takeProfit = 100 * P - tp * P
                             /\ order.stopLoss = 100 * P + sl * P
                             /\ order.takeProfit < 100 * P
                             /\ 100 * P < order.stopLoss

\* C17 witness: a BUY request (upper case) has had its entry order accepted
\* at price 250.
C17_Witness ==
    \E w \in Workers :
        /\ Returned(w)
        /\ worker[w].entries = 1
        /\ worker[w].side = "BUY"
        /\ worker[w].current_price = 250
        /\ worker[w].order.takeProfit > 25000

\* the events recorded under a symbol
EventsOf(locks, symbol) == IF symbol \in DOMAIN locks THEN locks[symbol] ELSE <<>>

\* profit_percentage >= profit_lock_threshold * 100, without the division
\* (contracts in units of 0.00001, the threshold in hundredths)
AtOrAboveThreshold(a, position) ==
    position.unrealizedPnl * 100 * leverage[a] * 100000
        >= profit_lock_threshold[a] * position.entryPrice * Abs(position.contracts)

\* C18: the for loop of a monitor iteration takes each position of the poll
\* once; for a position above the dust threshold whose profit percentage
\* is at or above profit_lock_threshold * 100 it calls update_stop_loss
\* once, appends one event under the position's symbol and adds one to
\* total_profit_locks; for a position at or below the dust threshold or
\* below the profit threshold it does none of these.
C18_LockIffAtThreshold ==
    [][\A a \in Accounts, i \in LoopIds :
          (/\ monitor_thread[a][i].pc = "each"
           /\ monitor_thread'[a][i] # monitor_thread[a][i])
              => LET position == Head(monitor_thread[a][i].positions)
                 IN  /\ monitor_thread'[a][i].positions
                            = Tail(monitor_thread[a][i].positions)
                     /\ IF /\ Abs(position.contracts) > 1
                           /\ AtOrAboveThreshold(a, position)
                        THEN /\ monitor_thread'[a][i].stop_calls
                                    = monitor_thread[a][i].stop_calls + 1
                             /\ total_profit_locks'[a] = total_profit_locks[a] + 1
                             /\ Len(EventsOf(profit_locks'[a], position.symbol))
                                    = Len(EventsOf(profit_locks[a], position.symbol)) + 1
                             /\ \A s \in DOMAIN profit_locks'[a] \ {position.symbol} :
                                    /\ s \in DOMAIN profit_locks[a]
                                    /\ profit_locks'[a][s] = profit_locks[a][s]
                        ELSE /\ monitor_thread'[a][i].stop_calls
                                    = monitor_thread[a][i].stop_calls
                             /\ total_profit_locks'[a] = total_profit_locks[a]
                             /\ profit_locks'[a] = profit_locks[a]]_vars

\* C18 witness: in one iteration a position whose profit percentage equals
\* the threshold has been locked (one stop call, one event, counter 1) and
\* the next position of the poll, at the dust threshold, is about to be
\* passed over.
C18_Witness ==
    \E a \in Accounts, i \in LoopIds :
        /\ monitor_thread[a][i].pc = "each"
        /\ Abs(Head(monitor_thread[a][i].positions).contracts) = 1
        /\ monitor_thread[a][i].stop_calls = 1
        /\ total_profit_locks[a] = 1
        /\ \E s \in DOMAIN profit_locks[a] :
               /\ Len(profit_locks[a][s]) = 1
               /\ profit_locks[a][s][1].profit_percentage = profit_lock_threshold[a]

\* C19: a status query changes none of trading_enabled, monitoring_active,
\* trade_history, failed_trades, profit_locks and total_profit_locks, and
\* submits no order to the exchange.
C19_StatusReadOnly ==
    [][\A w \in Workers :
          (worker[w].kind = "status" /\ worker'[w] # worker[w])
              => /\ trading_enabled' = trading_enabled
                 /\ monitoring_active' = monitoring_active
                 /\ trade_history' = trade_history
                 /\ failed_trades' = failed_trades
                 /\ profit_locks' = profit_locks
                 /\ total_profit_locks' = total_profit_locks
                 /\ worker'[w].flat = <<>>
                 /\ worker'[w].entries = 0]_vars

\* C20: a place_order invocation in which a call of
\* calculate_position_size raised (fetch_balance, fetch_ticker, or the
\* market lookup and rounding) has returned an error and has submitted no
\* entry order and logged no trade.
C20_SizerFailureNoOrder ==
    \A w \in Workers :
        (/\ worker[w].kind = "webhook"
         /\ worker[w].failed_at \in {"balance", "ticker", "market"})
            => /\ Returned(w)
               /\ worker[w].result = "error"
               /\ worker[w].entries = 0
               /\ worker[w].logged = 0
               /\ worker[w].order = <<>>

\* C20 witness: an invocation whose balance and ticker were fetched and
\* whose market lookup raised has returned.
C20_Witness ==
    \E w \in Workers :
        /\ Returned(w)
        /\ worker[w].failed_at = "market"
        /\ worker[w].current_price # 0
        /\ worker[w].entries = 0

\* C21: whatever exchange.set_leverage answers (it returns, raises the
\* 'leverage not modified' error or raises another error), place_order goes
\* on to calculate_position_size: the step leaves the invocation where a
\* successful step leaves it, with no error recorded, the balance fetch is
\* its next step, and no invocation ever ends on the leverage call.
C21_LeverageFailureGoesOn ==
    /\ [](\A w \in Workers :
            /\ worker[w].failed_at # "leverage"
            /\ (worker[w].kind = "webhook" /\ worker[w].pc = "bal_fetch")
                   => /\ worker[w].leverage_outcome \in LeverageOutcomes
                      /\ worker[w].result = "none"
                      /\ worker[w].failed_at = "none"
                      /\ ENABLED GetWalletBalance(w))
    /\ [][\A w \in Workers :
            (worker[w].pc = "po_leverage" /\ worker'[w] # worker[w])
                => worker'[w] =
                       [worker[w] EXCEPT !.pc = "bal_fetch", !.calls = @ + 1,
                                         !.probe = <<>>,
                                         !.leverage_outcome =
                                             worker'[w].leverage_outcome]]_vars
    /\ [][\A w \in Workers :
            (/\ worker[w].kind = "webhook"
             /\ worker[w].pc = "bal_fetch"
             /\ worker'[w] # worker[w])
                => /\ worker'[w].leverage_outcome = "none"
                   /\ worker'[w].pc \in {"bal_close", "po_ticker", "po_return"}
                   /\ worker'[w].pc = "po_return"
                          => worker'[w].failed_at = "balance"]_vars

\* C21 witness: set_leverage raised an error other than 'leverage not
\* modified' and the invocation is about to fetch the balance for sizing.
C21_Witness ==
    \E w \in Workers :
        /\ worker[w].kind = "webhook"
        /\ worker[w].pc = "bal_fetch"
        /\ worker[w].leverage_outcome = "error"
        /\ worker[w].result = "none"

\* sequence t is sequence s with entries appended at its end
ExtendsAtEnd(s, t) == Len(s) <= Len(t) /\ SubSeq(t, 1, Len(s)) = s

\* C22: in every state total_profit_locks equals the number of events in
\* the profit_locks lists; total_profit_locks never decreases; and
\* trade_history and every profit_locks list change only by entries
\* appended at the end.
C22_CounterMatchesEvents ==
    /\ [](\A a \in Accounts :
            total_profit_locks[a]
                = EventCount(profit_locks[a], DOMAIN profit_locks[a]))
    /\ [][\A a \in Accounts :
            /\ total_profit_locks'[a] >= total_profit_locks[a]
            /\ ExtendsAtEnd(trade_history[a], trade_history'[a])
            /\ \A symbol \in DOMAIN profit_locks[a] :
                   /\ symbol \in DOMAIN profit_locks'[a]
                   /\ ExtendsAtEnd(profit_locks[a][symbol],
                                   profit_locks'[a][symbol])]_vars

\* the stop order closes this position in full: reduce-only, on the
\* position's symbol, on the opposite side and of the position's size
ProtectsPosition(order, position) ==
    /\ order.reduceOnly
    /\ order.symbol = position.symbol
    /\ position.contracts > 0
    /\ order.amount = position.contracts
    /\ \/ position.side = "buy" /\ order.side = "sell"
       \/ position.side = "sell" /\ order.side = "buy"

\* C23: every stop order update_stop_loss hands to the exchange is
\* reduce-only, on the side opposite to the position the account holds on
\* that symbol at that moment and of that position's full size, also when a
\* place_order or a flattening on the account has changed the position
\* since the monitor's poll.
C23_StopMatchesPositionAtSubmission ==
    [][\A a \in Accounts, i \in LoopIds :
          (monitor_thread[a][i].pc = "proc" /\ monitor_thread'[a][i].pc = "incr")
              => ProtectsPosition(StopOrder(Head(monitor_thread[a][i].positions)),
                                  exchange_positions[a])]_vars

====
